---- MODULE Spec2Model ----
(***************************************************************************)
(* A model of bardecoder's src/qr/mod.rs (QRData, its index accessor and   *)
(* the block_info table) and src/decoder.rs (DecoderBuilder and Decoder).  *)
(***************************************************************************)
EXTENDS Integers, Sequences, FiniteSets, TLC

(***************************************************************************)
(* Bounds of the model.                                                    *)
(***************************************************************************)
\* QRData is built for the versions 0..MaxVersion and for the versions at
\* the edge of u32 (BoundaryVersions).
MaxVersion == 1
\* The raw sample arrays are the patterns Raw(n, 0) .. Raw(n, MaxSeed).
MaxSeed == 1
\* block_info is asked for the versions 0..MaxBlockVersion.
MaxBlockVersion == 40
\* Every stage has MaxImpl implementations besides the default one.
MaxImpl == 1
\* A source image shows at most MaxLoc symbols.
MaxLoc == 2

(***************************************************************************)
(* Option<T>: None is the empty sequence, Some(v) the sequence <<v>>.      *)
(***************************************************************************)
None == <<>>
Some(v) == <<v>>
unwrap(o) == o[1]
is_none(o) == o = None

(***************************************************************************)
(* u32.  TLC's integers end at 2^31 - 1, so a u32 is the pair <<hi, lo>>  *)
(* of its 16-bit halves: its value is hi * 2^16 + lo.                      *)
(***************************************************************************)
Half == 2 ^ 16
u32(n) == <<n \div Half, n % Half>>

\* 4 * version + 17 over the unbounded integers, as the three 16-bit digits
\* <<top, hi, lo>>: top > 0 exactly when the sum does not fit a u32.
ExactSide(version) ==
    LET lo == 4 * version[2] + 17
        hi == 4 * version[1] + (lo \div Half)
    IN  <<hi \div Half, hi % Half, lo % Half>>

\* Whether `4 * version + 17` overflows u32.
SideOverflows(version) == ExactSide(version)[1] > 0

\* x < side, for a small integer x and a u32 side.
Below(x, side) == side[1] > 0 \/ x < side[2]

(***************************************************************************)
(* src/qr/mod.rs: QRData.                                                  *)
(***************************************************************************)
\* The expression `4 * version + 17` of QRData::new in u32 arithmetic, where
\* the build wraps on overflow.
SideExprBad(version) ==
    LET lo == 4 * version[2] + 7
        hi == 4 * version[1] + (lo \div Half)
    IN  <<hi % Half, lo % Half>>

SideExpr(version) ==
    LET e == ExactSide(version) IN <<e[2], e[3]>>

\* QRData::new: the struct literal.
QRData_new(data, version) ==
    [data |-> data, version |-> version, side |-> SideExpr(version)]

\* The position index() reads: `index[1] * side + index[0]`, in a usize of
\* 64 bits, which holds the product of two u32.  The model's coordinates
\* are small and a sample array is shorter than 2^16, so with y > 0 and
\* side >= 2^16 the position is past the end of any array.
Offset(q, x, y) == IF y = 0 THEN x ELSE y * q.side[2] + x

PastEnd(q, x, y) ==
    \/ y > 0 /\ q.side[1] > 0
    \/ Offset(q, x, y) >= Len(q.data)

\* What index() returns for the raw sample `pixel`.
CanonicalBad(pixel) == IF pixel = 0 THEN 0 ELSE 1

Canonical(pixel) == IF pixel = 0 THEN 1 ELSE 0

\* Index<[u32; 2]>::index: a slice access past the end panics.
index(q, x, y) ==
    IF PastEnd(q, x, y)
    THEN [panic |-> TRUE, value |-> 0]
    ELSE [panic |-> FALSE, value |-> Canonical(q.data[Offset(q, x, y) + 1])]

(***************************************************************************)
(* src/qr/mod.rs: BlockInfo and block_info.                                *)
(***************************************************************************)
ECLevel == {"LOW", "MEDIUM", "QUARTILE", "HIGH"}

BlockInfo_new(block_count, total_per, data_per, ec_cap) ==
    [block_count |-> block_count, total_per |-> total_per,
     data_per |-> data_per, ec_cap |-> ec_cap]

block_infoBad(version, level) ==
    IF version = u32(1) /\ level = "MEDIUM"
    THEN Some(<<BlockInfo_new(1, 26, 16, 10)>>)
    ELSE None

block_infoAll(version, level) ==
    IF version = u32(1)
    THEN Some(<<BlockInfo_new(1, 26, 16, 4)>>)
    ELSE None

block_info(version, level) ==
    IF version = u32(1) /\ level = "MEDIUM"
    THEN Some(<<BlockInfo_new(1, 26, 16, 4)>>)
    ELSE None

(***************************************************************************)
(* src/decoder.rs: the stage components.  A component is a trait object;   *)
(* the model names the five default_builder binds and Custom(1) ..         *)
(* Custom(MaxImpl) for every other implementation of the trait.            *)
(***************************************************************************)
Custom(k) == [name |-> "Custom", id |-> k]
ToLuma == [name |-> "ToLuma::new()", id |-> 0]
BlockedMean == [name |-> "BlockedMean::new(5, 7)", id |-> 0]
LineScan == [name |-> "LineScan::new()", id |-> 0]
QRExtractor == [name |-> "QRExtractor::new()", id |-> 0]
QRDecoder == [name |-> "QRDecoder::new()", id |-> 0]

Customs == {Custom(k) : k \in 1 .. MaxImpl}

\* The implementations a setter can be handed, by slot.
Components ==
    [grayscale |-> {ToLuma} \cup Customs,
     threshold |-> {BlockedMean} \cup Customs,
     locate |-> {LineScan} \cup Customs,
     extract |-> {QRExtractor} \cup Customs,
     decode |-> {QRDecoder} \cup Customs]

Slots == {"grayscale", "threshold", "locate", "extract", "decode"}

(***************************************************************************)
(* The stages' contracts (spec sections 4 and 6).  A source image shows a  *)
(* row of symbols: "clean" ones decode, "damaged" ones are extracted but   *)
(* do not decode, "degenerate" ones are located with collinear finder      *)
(* centres.                                                                *)
(***************************************************************************)
SymbolKinds == {"clean", "damaged", "degenerate"}

Sources == UNION {[1 .. n -> SymbolKinds] : n \in 0 .. MaxLoc}

\* Grayscale::to_grayscale(&source): a deterministic function of the source.
to_grayscale(g, source) == [luma |-> source, by |-> g]

\* Threshold::to_threshold(grayscale): a deterministic function of the image.
to_threshold(t, gray) == [bits |-> gray, by |-> t]

\* Locate::locate(&threshold): one placement per symbol of the image.
locate(l, image) ==
    [i \in 1 .. Len(image.bits.luma) |-> [at |-> i, kind |-> image.bits.luma[i]]]

\* Extract::extract(&threshold, locations): one matrix per placement, in
\* order; a placement whose transform is degenerate yields none.
extract(e, image, locations) ==
    LET kept == SelectSeq(locations, LAMBDA p : p.kind # "degenerate")
    IN  [i \in 1 .. Len(kept) |-> [of |-> kept[i], by |-> e]]

\* Decode::decode(extraction): one Result per matrix, in order.
decode(d, extraction) ==
    [i \in 1 .. Len(extraction) |->
        [ok |-> extraction[i].of.kind = "clean", of |-> extraction[i].of.at]]

(***************************************************************************)
(* src/decoder.rs: DecoderBuilder.                                         *)
(***************************************************************************)
DecoderBuilder_new ==
    [grayscale |-> None, threshold |-> None, locate |-> None,
     extract |-> None, decode |-> None]

Builder_grayscale(b, g) == [b EXCEPT !.grayscale = Some(g)]

Builder_threshold(b, t) == [b EXCEPT !.threshold = Some(t)]

\* A setter that keeps a binding already made.
Builder_locateOnce(b, l) == IF is_none(b.locate) THEN [b EXCEPT !.locate = Some(l)] ELSE b

Builder_locate(b, l) == [b EXCEPT !.locate = Some(l)]

Builder_extract(b, e) == [b EXCEPT !.extract = Some(e)]

Builder_decode(b, d) == [b EXCEPT !.decode = Some(d)]

Unwrapped(b) ==
    [grayscale |-> unwrap(b.grayscale), threshold |-> unwrap(b.threshold),
     locate |-> unwrap(b.locate), extract |-> unwrap(b.extract),
     decode |-> unwrap(b.decode)]

Panic(msg) == [panic |-> Some(msg), decoder |-> None]

\* A build that does not look at the decode slot and falls back to QRDecoder.
Builder_buildLax(b) ==
    IF is_none(b.grayscale) THEN Panic("Cannot build Decoder without Grayscale component")
    ELSE IF is_none(b.threshold) THEN Panic("Cannot build Decoder without Threshold component")
    ELSE IF is_none(b.locate) THEN Panic("Cannot build Decoder without Locate component")
    ELSE IF is_none(b.extract) THEN Panic("Cannot build Decoder without Extract component")
    ELSE [panic |-> None,
          decoder |-> Some(Unwrapped([b EXCEPT !.decode =
                               IF is_none(b.decode) THEN Some(QRDecoder) ELSE b.decode]))]

\* DecoderBuilder::build: the five checks, then the Decoder.
Builder_build(b) ==
    IF is_none(b.grayscale) THEN Panic("Cannot build Decoder without Grayscale component")
    ELSE IF is_none(b.threshold) THEN Panic("Cannot build Decoder without Threshold component")
    ELSE IF is_none(b.locate) THEN Panic("Cannot build Decoder without Locate component")
    ELSE IF is_none(b.extract) THEN Panic("Cannot build Decoder without Extract component")
    ELSE IF is_none(b.decode) THEN Panic("Cannot build Decoder without Decode componen")
    ELSE [panic |-> None, decoder |-> Some(Unwrapped(b))]

\* A default_builder that leaves the decode stage out.
default_builderShort ==
    Builder_extract(
        Builder_locate(
            Builder_threshold(
                Builder_grayscale(DecoderBuilder_new, ToLuma),
                BlockedMean),
            LineScan),
        QRExtractor)

default_builder ==
    Builder_decode(
        Builder_extract(
            Builder_locate(
                Builder_threshold(
                    Builder_grayscale(DecoderBuilder_new, ToLuma),
                    BlockedMean),
                LineScan),
            QRExtractor),
        QRDecoder)

default_decoder == Builder_build(default_builder)

(***************************************************************************)
(* src/decoder.rs: Decoder::decode.                                        *)
(***************************************************************************)
\* `if locations.len() == 0 { return vec![]; }`
ShortCircuitNever(locations) == FALSE

ShortCircuitAtOne(locations) == Len(locations) <= 1

ShortCircuit(locations) == Len(locations) = 0

\* The value decode() returns: the Decode stage's output, as it is.
ReturnValueOkOnly(out) == SelectSeq(out, LAMBDA r : r.ok)

ReturnValue(out) == out

(***************************************************************************)
(* The inputs the model draws.                                             *)
(***************************************************************************)
\* 2^30 - 5 is the last version whose side fits a u32; 2^30 - 4, 2^30 - 3
\* and 2^32 - 1 overflow it.
BoundaryVersions ==
    {<<16383, 65531>>, <<16383, 65532>>, <<16383, 65533>>, <<65535, 65535>>}

Versions == {u32(v) : v \in 0 .. MaxVersion} \cup BoundaryVersions

\* The largest side of a version in 0..MaxVersion.
MaxSide == 4 * MaxVersion + 17

\* Raw samples: a thresholded image holds 0 and 255; 1 and 128 stand for
\* every other value of a u8.
Samples == <<0, 255, 1, 128>>

Raw(n, seed) == [i \in 1 .. n |-> Samples[(((i - 1) * (seed + 2) + seed) % 4) + 1]]

\* Arrays of side * side samples, arrays one sample short, and the empty one.
Lengths ==
    {0} \cup UNION {{(4 * v + 17) * (4 * v + 17) - d : d \in 0 .. 1} : v \in 0 .. MaxVersion}

DataInputs == {Raw(n, seed) : n \in Lengths, seed \in 0 .. MaxSeed}

BlockVersions == {u32(v) : v \in 0 .. MaxBlockVersion} \cup BoundaryVersions

(***************************************************************************)
(* State.                                                                  *)
(***************************************************************************)
VARIABLES
    overflow_checks,  \* the build panics on integer overflow (debug profile)
    qr,               \* Option<QRData>: the matrix QRData::new returned
    qr_args,          \* the arguments of that call
    qr_panicked,      \* QRData::new panicked
    ix,               \* Option: the last index() call and what it returned
    bi,               \* Option: the last block_info() call and what it returned
    phase,            \* "none", "building", "built" (build returned), "panicked"
    via,              \* the constructor used: "new", "default_builder", "default_decoder"
    builder,          \* the DecoderBuilder; after build, the value build consumed
    last_op,          \* the last setter called and its argument
    last_set,         \* by slot, the argument of the last setter call
    panic,            \* Option: the message build panicked with
    decoder,          \* Option<Decoder>
    pc,               \* Decoder::decode: "idle", the stage to run next, "returned"
    frame,            \* the locals of the running decode call
    calls,            \* the stage calls of the running decode call, in order
    result            \* Option: the value decode returned

qrvars == <<overflow_checks, qr, qr_args, qr_panicked, ix, bi>>
decvars == <<phase, via, builder, last_op, last_set, panic, decoder, pc, frame, calls, result>>
vars == <<qrvars, decvars>>

NoFrame ==
    [source |-> None, grayscale |-> None, threshold |-> None,
     locations |-> None, extraction |-> None]

Init ==
    /\ overflow_checks \in BOOLEAN
    /\ qr = None
    /\ qr_args = None
    /\ qr_panicked = FALSE
    /\ ix = None
    /\ bi = None
    /\ phase = "none"
    /\ via = "none"
    /\ builder = DecoderBuilder_new
    /\ last_op = None
    /\ last_set = DecoderBuilder_new
    /\ panic = None
    /\ decoder = None
    /\ pc = "idle"
    /\ frame = NoFrame
    /\ calls = <<>>
    /\ result = None

\* QRData::new(data, version).
CallQRDataNew ==
    /\ qr = None /\ ~qr_panicked
    /\ \E data \in DataInputs, version \in Versions :
        /\ qr_args' = Some([data |-> data, version |-> version])
        /\ IF SideOverflows(version) /\ overflow_checks
           THEN qr_panicked' = TRUE /\ qr' = None
           ELSE qr_panicked' = FALSE /\ qr' = Some(QRData_new(data, version))
    /\ UNCHANGED <<overflow_checks, ix, bi, decvars>>

\* qr[[x, y]]: index() takes &self, so the matrix is the same for every
\* read; the model records one read of each matrix.
CallIndex ==
    /\ qr # None /\ ix = None
    /\ \E x \in 0 .. MaxSide, y \in 0 .. MaxSide :
        ix' = Some([x |-> x, y |-> y, out |-> index(unwrap(qr), x, y)])
    /\ UNCHANGED <<overflow_checks, qr, qr_args, qr_panicked, bi, decvars>>

\* block_info(version, level).
CallBlockInfo ==
    /\ \E version \in BlockVersions, level \in ECLevel :
        bi' = Some([version |-> version, level |-> level,
                    out |-> block_info(version, level)])
    /\ UNCHANGED <<overflow_checks, qr, qr_args, qr_panicked, ix, decvars>>

NextQRData == CallQRDataNew \/ CallIndex
SpecQRData == Init /\ [][NextQRData]_vars

NextBlocks == CallBlockInfo
SpecBlocks == Init /\ [][NextBlocks]_vars

(***************************************************************************)
(* The builder's operations.                                               *)
(***************************************************************************)
decodevars == <<decoder, pc, frame, calls, result>>

\* DecoderBuilder::new().
CallNew ==
    /\ phase = "none"
    /\ phase' = "building"
    /\ via' = "new"
    /\ builder' = DecoderBuilder_new
    /\ UNCHANGED <<last_op, last_set, panic, decodevars, qrvars>>

\* default_builder(): new() and the five setters.
CallDefaultBuilder ==
    /\ phase = "none"
    /\ phase' = "building"
    /\ via' = "default_builder"
    /\ builder' = default_builder
    /\ last_op' = Some(<<"decode", QRDecoder>>)
    /\ last_set' = [grayscale |-> Some(ToLuma), threshold |-> Some(BlockedMean),
                    locate |-> Some(LineScan), extract |-> Some(QRExtractor),
                    decode |-> Some(QRDecoder)]
    /\ UNCHANGED <<panic, decodevars, qrvars>>

Setter(slot, c, after) ==
    /\ phase = "building"
    /\ builder' = after
    /\ last_op' = Some(<<slot, c>>)
    /\ last_set' = [last_set EXCEPT ![slot] = Some(c)]
    /\ UNCHANGED <<phase, via, panic, decodevars, qrvars>>

CallGrayscale == \E g \in Components.grayscale : Setter("grayscale", g, Builder_grayscale(builder, g))
CallThreshold == \E t \in Components.threshold : Setter("threshold", t, Builder_threshold(builder, t))
CallLocate == \E l \in Components.locate : Setter("locate", l, Builder_locate(builder, l))
CallExtract == \E e \in Components.extract : Setter("extract", e, Builder_extract(builder, e))
CallDecode == \E d \in Components.decode : Setter("decode", d, Builder_decode(builder, d))

\* What build(self) leaves: a Decoder, or the panic.
Built(b) ==
    LET out == Builder_build(b) IN
    /\ phase' = IF out.panic = None THEN "built" ELSE "panicked"
    /\ panic' = out.panic
    /\ decoder' = out.decoder

\* builder.build().
CallBuild ==
    /\ phase = "building"
    /\ Built(builder)
    /\ last_op' = Some(<<"build", None>>)
    /\ UNCHANGED <<via, builder, last_set, pc, frame, calls, result, qrvars>>

\* default_decoder(): default_builder().build().
CallDefaultDecoder ==
    /\ phase = "none"
    /\ via' = "default_decoder"
    /\ builder' = default_builder
    /\ LET out == default_decoder IN
        /\ phase' = IF out.panic = None THEN "built" ELSE "panicked"
        /\ panic' = out.panic
        /\ decoder' = out.decoder
    /\ last_op' = Some(<<"build", None>>)
    /\ last_set' = [grayscale |-> Some(ToLuma), threshold |-> Some(BlockedMean),
                    locate |-> Some(LineScan), extract |-> Some(QRExtractor),
                    decode |-> Some(QRDecoder)]
    /\ UNCHANGED <<pc, frame, calls, result, qrvars>>

(***************************************************************************)
(* Decoder::decode(&self, source), statement by statement.                 *)
(***************************************************************************)
buildervars == <<phase, via, builder, last_op, last_set, panic>>

Call(stage, by, args, ret) == [stage |-> stage, by |-> by, args |-> args, ret |-> ret]

\* decoder.decode(&source) is entered.
DecodeEnter ==
    /\ phase = "built" /\ pc = "idle"
    /\ \E source \in Sources : frame' = [NoFrame EXCEPT !.source = Some(source)]
    /\ pc' = "grayscale"
    /\ calls' = <<>>
    /\ result' = None
    /\ UNCHANGED <<decoder, buildervars, qrvars>>

\* let grayscale = self.grayscale.to_grayscale(source);
StepGrayscale ==
    /\ pc = "grayscale"
    /\ LET g == unwrap(decoder).grayscale
           out == to_grayscale(g, unwrap(frame.source))
       IN  /\ frame' = [frame EXCEPT !.grayscale = Some(out)]
           /\ calls' = Append(calls, Call("grayscale", g, <<unwrap(frame.source)>>, out))
    /\ pc' = "threshold"
    /\ UNCHANGED <<decoder, result, buildervars, qrvars>>

\* let threshold = self.threshold.to_threshold(grayscale);
StepThreshold ==
    /\ pc = "threshold"
    /\ LET t == unwrap(decoder).threshold
           out == to_threshold(t, unwrap(frame.grayscale))
       IN  /\ frame' = [frame EXCEPT !.threshold = Some(out)]
           /\ calls' = Append(calls, Call("threshold", t, <<unwrap(frame.grayscale)>>, out))
    /\ pc' = "locate"
    /\ UNCHANGED <<decoder, result, buildervars, qrvars>>

\* let locations = self.locate.locate(&threshold); and the early return.
StepLocate ==
    /\ pc = "locate"
    /\ LET l == unwrap(decoder).locate
           out == locate(l, unwrap(frame.threshold))
       IN  /\ frame' = [frame EXCEPT !.locations = Some(out)]
           /\ calls' = Append(calls, Call("locate", l, <<unwrap(frame.threshold)>>, out))
           /\ IF ShortCircuit(out)
              THEN pc' = "returned" /\ result' = Some(<<>>)
              ELSE pc' = "extract" /\ result' = result
    /\ UNCHANGED <<decoder, buildervars, qrvars>>

\* let extraction = self.extract.extract(&threshold, locations);
StepExtract ==
    /\ pc = "extract"
    /\ LET e == unwrap(decoder).extract
           out == extract(e, unwrap(frame.threshold), unwrap(frame.locations))
       IN  /\ frame' = [frame EXCEPT !.extraction = Some(out)]
           /\ calls' = Append(calls, Call("extract", e,
                                <<unwrap(frame.threshold), unwrap(frame.locations)>>, out))
    /\ pc' = "decode"
    /\ UNCHANGED <<decoder, result, buildervars, qrvars>>

\* self.decode.decode(extraction)
StepDecode ==
    /\ pc = "decode"
    /\ LET d == unwrap(decoder).decode
           out == decode(d, unwrap(frame.extraction))
       IN  /\ calls' = Append(calls, Call("decode", d, <<unwrap(frame.extraction)>>, out))
           /\ result' = Some(ReturnValue(out))
    /\ pc' = "returned"
    /\ UNCHANGED <<decoder, frame, buildervars, qrvars>>

\* The caller has the result; the Decoder is ready for the next call.
DecodeLeave ==
    /\ pc = "returned"
    /\ pc' = "idle"
    /\ frame' = NoFrame
    /\ calls' = <<>>
    /\ result' = None
    /\ UNCHANGED <<decoder, buildervars, qrvars>>

Next ==
    \/ CallNew \/ CallDefaultBuilder \/ CallDefaultDecoder
    \/ CallGrayscale \/ CallThreshold \/ CallLocate \/ CallExtract \/ CallDecode
    \/ CallBuild
    \/ DecodeEnter \/ StepGrayscale \/ StepThreshold \/ StepLocate
    \/ StepExtract \/ StepDecode \/ DecodeLeave

Spec == Init /\ [][Next]_vars

(***************************************************************************)
(* Properties of src/qr/mod.rs.                                            *)
(***************************************************************************)
\* The entries of the last block_info() answer (none when it was None).
Entries == IF bi = None \/ unwrap(bi).out = None THEN <<>> ELSE unwrap(unwrap(bi).out)

\* C1 as stated: for every BlockInfo entry block_info returns,
\* total_per - data_per == 2 * ec_cap.
C1_ParityIsTwiceCapacity ==
    \A i \in DOMAIN Entries :
        Entries[i].total_per - Entries[i].data_per = 2 * Entries[i].ec_cap

\* C1 amended: for every BlockInfo entry block_info returns, data_per is at
\* most total_per and total_per - data_per >= 2 * ec_cap; the one entry of the
\* table, (version 1, MEDIUM), has 26 - 16 = 10 = 2 * 4 + 2.
C1_ParityCoversTwiceCapacity ==
    \A i \in DOMAIN Entries :
        /\ Entries[i].data_per <= Entries[i].total_per
        /\ Entries[i].total_per - Entries[i].data_per >= 2 * Entries[i].ec_cap
        /\ Entries[i].total_per - Entries[i].data_per = 2 * Entries[i].ec_cap + 2

C1_Witness ==
    /\ bi # None
    /\ unwrap(bi).version = u32(1) /\ unwrap(bi).level = "MEDIUM"
    /\ Len(Entries) = 1

\* C6: block_info returns an entry for (version 1, MEDIUM) and for no other
\* pair; for every other pair it returns None, a value and not a panic.
C6_OnlyVersion1Medium ==
    bi # None =>
        LET c == unwrap(bi) IN
        /\ c.out # None <=> (c.version = <<0, 1>> /\ c.level = "MEDIUM")
        /\ c.out # None => Len(unwrap(c.out)) = 1

C6_Witness ==
    /\ bi # None
    /\ unwrap(bi).version = u32(1) /\ unwrap(bi).level = "LOW"
    /\ unwrap(bi).out = None

\* a <= b for two u32.
LeqU32(a, b) == a[1] < b[1] \/ (a[1] = b[1] /\ a[2] <= b[2])

\* 2^30 - 5 = 1073741819: the largest version with 4 * version + 17 <= 2^32 - 1.
LastFittingVersion == <<16383, 65531>>

\* C2 as stated: every QRData built by QRData::new(data, version) has
\* side == 4 * version + 17 (over the integers) and holds exactly the
\* version and the data passed in.
C2_SideIsFourVersionPlus17 ==
    qr # None =>
        LET q == unwrap(qr) IN
        /\ <<0, q.side[1], q.side[2]>> = ExactSide(q.version)
        /\ q.version = unwrap(qr_args).version
        /\ q.data = unwrap(qr_args).data

\* C2 amended: every QRData built by QRData::new(data, version) holds exactly
\* the version and the data passed in; for version <= 1073741819 its side is
\* 4 * version + 17; for a larger version the sum overflows u32, and a build
\* with overflow checks panics and builds nothing while a build without them
\* stores side == (4 * version + 17) mod 2^32.
C2_SideUnlessOverflow ==
    /\ qr # None =>
        LET q == unwrap(qr) IN
        /\ q.version = unwrap(qr_args).version
        /\ q.data = unwrap(qr_args).data
        /\ LeqU32(q.version, LastFittingVersion) =>
               <<0, q.side[1], q.side[2]>> = ExactSide(q.version)
        /\ ~LeqU32(q.version, LastFittingVersion) =>
               /\ ~overflow_checks
               /\ q.side = <<ExactSide(q.version)[2], ExactSide(q.version)[3]>>
               /\ ExactSide(q.version)[1] > 0
    /\ qr_panicked =>
        /\ overflow_checks
        /\ qr = None
        /\ ~LeqU32(unwrap(qr_args).version, LastFittingVersion)

C2_Witness ==
    /\ qr # None
    /\ unwrap(qr).version = LastFittingVersion
    /\ unwrap(qr).side = <<65535, 65533>>
    /\ Len(unwrap(qr).data) = 441

\* The raw sample at row-major position y * side + x of q, if the array has one.
HasSample(q, x, y) ==
    /\ y = 0 \/ q.side[1] = 0
    /\ y * q.side[2] + x < Len(q.data)

SampleAt(q, x, y) == q.data[y * q.side[2] + x + 1]

\* C3 as stated: for every QRData and every [x, y] with x < side and
\* y < side, the accessor returns 1 when the raw sample at y * side + x is 0
\* and 0 otherwise, and the read leaves the stored data as it was.
C3_CanonicalBitEverywhere ==
    ix # None =>
        LET q == unwrap(qr)
            c == unwrap(ix)
        IN  (Below(c.x, q.side) /\ Below(c.y, q.side)) =>
                /\ ~c.out.panic
                /\ HasSample(q, c.x, c.y)
                /\ c.out.value = (IF SampleAt(q, c.x, c.y) = 0 THEN 1 ELSE 0)
                /\ q.data = unwrap(qr_args).data

\* C3 amended: for every QRData and every [x, y] with x < side, y < side and
\* y * side + x < data.len(), the accessor returns 1 when the raw sample at
\* y * side + x is 0 and 0 otherwise, so it does for every such [x, y] of a
\* matrix holding side * side samples; when y * side + x >= data.len() the
\* read panics.  A result is 0 or 1 and the read leaves the stored data as
\* it was.
C3_CanonicalBitWhereSampled ==
    ix # None =>
        LET q == unwrap(qr)
            c == unwrap(ix)
        IN  /\ HasSample(q, c.x, c.y) =>
                /\ ~c.out.panic
                /\ c.out.value = (IF SampleAt(q, c.x, c.y) = 0 THEN 1 ELSE 0)
            /\ ~HasSample(q, c.x, c.y) => c.out.panic
            /\ c.out.value \in {0, 1}
            /\ q.data = unwrap(qr_args).data
            /\ (Below(c.x, q.side) /\ Below(c.y, q.side)
                    /\ q.side[1] = 0 /\ Len(q.data) = q.side[2] * q.side[2])
               => ~c.out.panic

C3_Witness ==
    /\ ix # None
    /\ unwrap(qr).side = u32(21) /\ Len(unwrap(qr).data) = 441
    /\ unwrap(ix).x = 20 /\ unwrap(ix).y = 20
    /\ SampleAt(unwrap(qr), 20, 20) = 0
    /\ unwrap(ix).out = [panic |-> FALSE, value |-> 1]

(***************************************************************************)
(* Properties of src/decoder.rs.                                           *)
(***************************************************************************)
\* The stages called so far in the running decode call, in order.
Stages == [i \in 1 .. Len(calls) |-> calls[i].stage]

Invoked(stage) == \E i \in DOMAIN calls : calls[i].stage = stage

AllBound(b) == \A s \in Slots : b[s] # None

\* C4: when Locate returns an empty list, decode returns an empty list and
\* calls neither Extract nor Decode; when Locate returns a non-empty list,
\* decode calls both.
C4_ShortCircuitOnNoPlacement ==
    /\ (frame.locations # None /\ unwrap(frame.locations) = <<>>) =>
           /\ ~Invoked("extract") /\ ~Invoked("decode")
           /\ pc = "returned" /\ result = Some(<<>>)
    /\ (pc = "returned" /\ unwrap(frame.locations) # <<>>) =>
           Invoked("extract") /\ Invoked("decode")

C4_Witness ==
    /\ pc = "returned"
    /\ unwrap(frame.locations) = <<>>
    /\ Stages = <<"grayscale", "threshold", "locate">>
    /\ result = Some(<<>>)

\* C5: build yields a Decoder if and only if all five stages are bound; with
\* a stage missing it panics, no Decoder exists and no stage has been called.
C5_BuildNeedsAllFive ==
    /\ phase = "built" => AllBound(builder) /\ decoder # None /\ panic = None
    /\ phase = "panicked" =>
           /\ ~AllBound(builder)
           /\ panic # None
           /\ decoder = None /\ calls = <<>> /\ pc = "idle" /\ result = None
    /\ phase \in {"none", "building"} => decoder = None /\ calls = <<>> /\ pc = "idle"

C5_Witness ==
    /\ phase = "panicked"
    /\ builder.decode = None
    /\ \A s \in Slots \ {"decode"} : builder[s] # None
    /\ calls = <<>>

\* The number of placements Locate returned that are not degenerate.
Extractable ==
    Cardinality({i \in DOMAIN unwrap(frame.locations) :
                    unwrap(frame.locations)[i].kind # "degenerate"})

\* C7 as stated: the list decode returns has one result per placement that
\* Locate produced.
C7_OneResultPerPlacement ==
    pc = "returned" => Len(unwrap(result)) = Len(unwrap(frame.locations))

\* C7 amended: with stages that keep the contracts of sections 4.2 and 4.3,
\* the list decode returns has one result per matrix that Extract produced,
\* that is one per located placement that is not degenerate: its length is
\* at most the number of located placements, and equal to it when no
\* placement is degenerate.
C7_OneResultPerExtractedMatrix ==
    pc = "returned" =>
        /\ Len(unwrap(result)) = Extractable
        /\ Len(unwrap(result)) <= Len(unwrap(frame.locations))
        /\ frame.extraction # None => Len(unwrap(result)) = Len(unwrap(frame.extraction))

C7_Witness ==
    /\ pc = "returned"
    /\ Len(unwrap(frame.locations)) = 2
    /\ unwrap(frame.locations)[1].kind = "degenerate"
    /\ Len(unwrap(result)) = 1

\* C8: default_builder binds all five stages, so default_decoder yields a
\* Decoder and never one of build's panics.
C8_DefaultDecoderBuilds ==
    /\ via = "default_builder" => AllBound(builder)
    /\ via = "default_decoder" =>
           /\ phase = "built"
           /\ panic = None
           /\ decoder = Some([grayscale |-> ToLuma, threshold |-> BlockedMean,
                              locate |-> LineScan, extract |-> QRExtractor,
                              decode |-> QRDecoder])

C8_Witness ==
    /\ via = "default_decoder"
    /\ phase = "built"
    /\ pc = "returned"

\* The calls made so far are a prefix of the chain, each made on the stage
\* the Decoder holds and on the output of the call before it.
C9_CallChain ==
    /\ \E n \in 0 .. 5 :
           Stages = SubSeq(<<"grayscale", "threshold", "locate", "extract", "decode">>, 1, n)
    /\ \A i \in DOMAIN calls : calls[i].by = unwrap(decoder)[calls[i].stage]
    /\ Len(calls) >= 1 => calls[1].args = <<unwrap(frame.source)>>
    /\ Len(calls) >= 2 => calls[2].args = <<calls[1].ret>>
    /\ Len(calls) >= 3 => calls[3].args = <<calls[2].ret>>
    /\ Len(calls) >= 4 => calls[4].args = <<calls[2].ret, calls[3].ret>>
    /\ Len(calls) >= 5 => calls[5].args = <<calls[4].ret>>
    /\ (pc = "returned" /\ Len(calls) = 5) => result = Some(calls[5].ret)

\* A step of a decode call leaves the Decoder as it was.
C9_DecoderKept == (pc # "idle" \/ pc' # "idle") => decoder' = decoder

\* C9: in one decode call the stages run in the order grayscale, threshold,
\* locate, extract, decode, each at most once, each on the output of the one
\* before (the threshold output goes to locate and to extract); the value
\* returned is the Decode stage's output as it is; and the call leaves the
\* Decoder's stages as they were.
C9_StagesInOrder == [](C9_CallChain) /\ [][C9_DecoderKept]_vars

C9_Witness ==
    /\ pc = "returned"
    /\ Stages = <<"grayscale", "threshold", "locate", "extract", "decode">>
    /\ unwrap(result) = <<[ok |-> FALSE, of |-> 1], [ok |-> TRUE, of |-> 2]>>

\* A setter call binds its argument in its own slot and leaves the others.
C10_SetterStep ==
    (phase = "building" /\ phase' = "building" /\ last_op' # None) =>
        \A s \in Slots :
            (unwrap(last_op')[1] = s /\ (last_op' # last_op \/ builder' # builder)) =>
                /\ builder'[s] = Some(unwrap(last_op')[2])
                /\ \A t \in Slots \ {s} : builder'[t] = builder[t]

\* The builder, and then the Decoder, hold the last binding of every stage.
C10_LastBindingBuilt ==
    /\ phase = "building" => builder = last_set
    /\ phase = "built" => \A s \in Slots : Some(unwrap(decoder)[s]) = last_set[s]

\* C10: a setter changes its own slot and no other; binding a stage again
\* replaces the earlier binding; the Decoder build returns holds, for every
\* stage, the implementation of the last setter call for that stage.
C10_SettersIndependent == [](C10_LastBindingBuilt) /\ [][C10_SetterStep]_vars

C10_Witness ==
    /\ phase = "built"
    /\ via = "default_builder"
    /\ unwrap(decoder).locate = Custom(1)
    /\ unwrap(decoder).extract = QRExtractor

====
